---- MODULE Spec2Model ----
(***************************************************************************)
(* Model of the bundle release pipeline of the CLI: uploadBundle and       *)
(* checkNativeCode of src/src/bundle/upload.ts, run against a remote store *)
(* holding version rows, one channel row and the uploaded objects.         *)
(***************************************************************************)
EXTENDS Integers, Sequences, FiniteSets, TLC

\* ------------------------------------------------------------------------
\* Bounds of the model
\* ------------------------------------------------------------------------

\* number of uploadBundle invocations (processes) of one behaviour
MaxRuns == 2

\* number of distinct per-release session keys the encryptor may draw
MaxSessionKey == 2

Runs == 1..MaxRuns

\* ------------------------------------------------------------------------
\* Bundle names: strings, as sequences of one-character strings
\* ------------------------------------------------------------------------

Digits == {"0", "1", "2", "3", "4", "5", "6", "7", "8", "9"}

\* a-z and A-Z
Letters ==
  { "a", "b", "c", "d", "e", "f", "g", "h", "i", "j", "k", "l", "m",
    "n", "o", "p", "q", "r", "s", "t", "u", "v", "w", "x", "y", "z",
    "A", "B", "C", "D", "E", "F", "G", "H", "I", "J", "K", "L", "M",
    "N", "O", "P", "Q", "R", "S", "T", "U", "V", "W", "X", "Y", "Z" }

DigitVal(c) ==
  CASE c = "0" -> 0 [] c = "1" -> 1 [] c = "2" -> 2 [] c = "3" -> 3
    [] c = "4" -> 4 [] c = "5" -> 5 [] c = "6" -> 6 [] c = "7" -> 7
    [] c = "8" -> 8 [] c = "9" -> 9 [] OTHER -> 0

\* s.split(sep)
RECURSIVE Split(_, _)
Split(s, sep) ==
  IF \A i \in 1..Len(s) : s[i] # sep
    THEN << s >>
    ELSE LET k == CHOOSE i \in 1..Len(s) :
                     s[i] = sep /\ \A j \in 1..(i - 1) : s[j] # sep
         IN  << SubSeq(s, 1, k - 1) >> \o Split(SubSeq(s, k + 1, Len(s)), sep)

\* (0|[1-9]\d*)
IsNumericId(s) ==
  /\ Len(s) >= 1
  /\ \A i \in 1..Len(s) : s[i] \in Digits
  /\ (Len(s) > 1 => s[1] # "0")

\* (0|[1-9]\d*|\d*[a-zA-Z-][0-9a-zA-Z-]*)
IsPrereleaseId(s) ==
  /\ Len(s) >= 1
  /\ \A i \in 1..Len(s) : s[i] \in Digits \cup Letters \cup {"-"}
  /\ ((\A i \in 1..Len(s) : s[i] \in Digits) => IsNumericId(s))

\* the position of the first "-" of s, or Len(s) + 1
FirstHyphen(s) ==
  IF \E i \in 1..Len(s) : s[i] = "-"
    THEN CHOOSE i \in 1..Len(s) : s[i] = "-" /\ \A j \in 1..(i - 1) : s[j] # "-"
    ELSE Len(s) + 1

\* regexSemver.test(bundle): MAJOR.MINOR.PATCH with an optional -prerelease
regexSemver(s) ==
  LET h    == FirstHyphen(s)
      core == Split(SubSeq(s, 1, h - 1), ".")
      pre  == Split(SubSeq(s, h + 1, Len(s)), ".")
  IN  /\ Len(core) = 3
      /\ \A i \in 1..3 : IsNumericId(core[i])
      /\ (h <= Len(s) => \A i \in 1..Len(pre) : IsPrereleaseId(pre[i]))

RECURSIVE NumVal(_)
NumVal(s) ==
  IF s = << >> THEN 0
  ELSE 10 * NumVal(SubSeq(s, 1, Len(s) - 1)) + DigitVal(s[Len(s)])

\* semver.major(v) throws a TypeError on a string that is no version
MajorThrows(v) == ~regexSemver(v)

\* semver.major(v)
SemverMajor(v) == NumVal(Split(v, ".")[1])

B140 == << "1", ".", "4", ".", "0" >>
B150 == << "1", ".", "5", ".", "0" >>
B200 == << "2", ".", "0", ".", "0" >>
BBad == << "1", ".", "5", "/", "0" >>
BUnknown == << "u", "n", "k", "n", "o", "w", "n" >>

\* the bundle names an invocation may be given
Bundles == {B150, B200, BBad}

\* the names of the version rows the store may hold
VersionNames == {B140, B150, B200, BUnknown}

\* ------------------------------------------------------------------------
\* Pure functions of the pipeline
\* ------------------------------------------------------------------------

Null == "null"

\* [a-zA-Z0-9-_.!*'()]
SafeKeyChars == Digits \cup Letters \cup {"-", "_", ".", "!", "*", "'", "(", ")"}

\* the characters outside the class dropped, not replaced
safeBundle_dropped(s) == SelectSeq(s, LAMBDA c : c \in SafeKeyChars)

\* bundle.replace(/[^a-zA-Z0-9-_.!*'()]/g, '__')
RECURSIVE safeBundle(_)
safeBundle(s) ==
  IF s = << >> THEN << >>
  ELSE (IF Head(s) \in SafeKeyChars THEN << Head(s) >> ELSE << "_", "_" >>)
         \o safeBundle(Tail(s))

\* `${safeBundle}.zip`
fileName(bundle) == safeBundle(bundle) \o << ".", "z", "i", "p" >>

\* getChecksum(bytes, 'crc32'): a cyclic checksum of the bytes, folded from the
\* first byte to the last, kept to its width
RECURSIVE getChecksum(_)
getChecksum(bytes) ==
  IF bytes = << >> THEN 1
  ELSE (3 * getChecksum(SubSeq(bytes, 1, Len(bytes) - 1)) + bytes[Len(bytes)] + 1) % 7

\* encryptSource(zipped, keyData): the bytes under a fresh session key
encryptSource(bytes, sessionKey) ==
  [ ivSessionKey  |-> sessionKey,
    encryptedData |-> [ i \in 1..Len(bytes) |-> (bytes[i] + sessionKey) % 4 ] ]

\* the archives zip.toBuffer() may produce from the source path
Archives == { << 1, 2 >>, << 3, 0, 1 >> }

\* the hashes findAllNativeCode may report
Hashes == {"A", "B", "C"}

NativeFile(p, h) == [ path |-> p, hash |-> h ]

\* nativeCodeLocal.map(val => val.hash)
MapHash(nativeCodeLocal) ==
  [ i \in 1..Len(nativeCodeLocal) |-> nativeCodeLocal[i].hash ]

\* the local hash compared with the first recorded hash only
HashMissing_firstOnly(remote, hash) == remote = << >> \/ remote[1] # hash

\* nativeFilesRemoteHashes.find((item) => item === hash) === undefined
HashMissing(remote, hash) == \A i \in 1..Len(remote) : remote[i] # hash

\* the paths logged by the loop of checkNativeCode, in order
RECURSIVE ChangedPaths(_, _)
ChangedPaths(nativeCodeLocal, remote) ==
  IF nativeCodeLocal = << >> THEN << >>
  ELSE (IF HashMissing(remote, Head(nativeCodeLocal).hash)
          THEN << Head(nativeCodeLocal).path >> ELSE << >>)
         \o ChangedPaths(Tail(nativeCodeLocal), remote)

NativeResult(ok, hs, paths, thrown) ==
  [ nativeFilesNotChanged |-> ok, hashes |-> hs, changed |-> paths, threw |-> thrown ]

\* the comparison of the majors turned around
MajorBump_reversed(bundle, boundName) == SemverMajor(bundle) < SemverMajor(boundName)

\* semver.major(bundle) > semver.major(typedChannelData.version.name)
MajorBump(bundle, boundName) == SemverMajor(bundle) > SemverMajor(boundName)

\* a null native_files_sha256: no hash is the string "null"
NullHashes == << Null >>

\* the row the channel lookup returns: found is FALSE when there is no row or
\* the lookup failed (errorChannel || !dataChannel)
DataChannel(ok, versionName, remoteHashes) ==
  [ found |-> ok, name |-> versionName, native_files_sha256 |-> remoteHashes ]

\* checkNativeCode after the channel lookup
checkNativeCode(nativeCodeLocal, dataChannel, bundle) ==
  LET hs == MapHash(nativeCodeLocal) IN
  IF ~dataChannel.found
    THEN NativeResult(TRUE, hs, << >>, FALSE)
  ELSE IF MajorThrows(bundle) \/ MajorThrows(dataChannel.name)
    THEN NativeResult(FALSE, hs, << >>, TRUE)
  ELSE IF MajorBump(bundle, dataChannel.name)
    THEN NativeResult(TRUE, hs, << >>, FALSE)
  ELSE IF dataChannel.native_files_sha256 = NullHashes
    THEN NativeResult(TRUE, hs, << >>, FALSE)
  ELSE LET paths == ChangedPaths(nativeCodeLocal, dataChannel.native_files_sha256)
       IN  NativeResult(paths = << >>, hs, paths, FALSE)

\* ------------------------------------------------------------------------
\* The remote store and the invocations
\* ------------------------------------------------------------------------

VARIABLES
  versions,   \* the version rows of the app, by name
  channel,    \* the version the channel row of (app_id, channel) points at
  objects,    \* the objects of the bucket, by object key
  pc,         \* where each invocation of uploadBundle stands
  opts,       \* the options and credentials each invocation was given
  loc,        \* the local variables of each invocation
  cause,      \* the error an invocation reported before program.error('')
  trace,      \* the calls each invocation has made, in order
  snap,       \* the store as it was when each invocation started
  exitCode    \* the exit status of each ended process

vars == << versions, channel, objects, pc, opts, loc, cause, trace, snap, exitCode >>

NoName == << >>

NoRow ==
  [ exists |-> FALSE, bucket_id |-> NoName, external_url |-> "",
    storage_provider |-> "", checksum |-> -1, session_key |-> 0,
    native_files_sha256 |-> NullHashes ]

NoObject == [ stored |-> FALSE, bytes |-> << >>, crc32 |-> -1 ]

NoOpts ==
  [ bundle |-> NoName, external |-> "", key |-> FALSE, apikey |-> FALSE,
    path |-> "none", keyMode |-> "read" ]

NoLoc ==
  [ nativeCodeLocal |-> << >>, nativeFilesNotChanged |-> TRUE,
    hashes |-> << >>, changed |-> << >>, zipped |-> << >>, checksum |-> -1,
    sessionKey |-> 0, versionData |-> NoRow, versionId |-> NoName ]

ObjectKeys == { fileName(b) : b \in VersionNames }

NoSnap ==
  [ channel |-> NoName, versions |-> [ n \in VersionNames |-> NoRow ],
    objects |-> [ k \in ObjectKeys |-> NoObject ] ]

\* the native files an invocation may find in the project
LocalNativeSets ==
  { << >>,
    << NativeFile(1, "A") >>,
    << NativeFile(1, "A"), NativeFile(2, "C") >> }

\* a version row released earlier: stored, with its native hashes recorded or not
OldRow(name, hs) ==
  [ exists |-> TRUE, bucket_id |-> fileName(name), external_url |-> "",
    storage_provider |-> "r2", checksum |-> 0, session_key |-> 0,
    native_files_sha256 |-> hs ]

\* the store before the invocations: version 1.4.0 and the "unknown" version
\* of the app exist; the channel is absent, or bound to one of them
Init ==
  /\ \E c \in {NoName, B140, BUnknown}, hs \in {NullHashes, << "A", "B" >>} :
       /\ (c # B140 => hs = NullHashes)
       /\ channel = c
       /\ versions = [ n \in VersionNames |->
                         IF n = B140 THEN OldRow(B140, hs)
                         ELSE IF n = BUnknown THEN OldRow(BUnknown, NullHashes)
                         ELSE NoRow ]
  /\ objects = [ k \in ObjectKeys |-> NoObject ]
  /\ pc = [ r \in Runs |-> "idle" ]
  /\ opts = [ r \in Runs |-> NoOpts ]
  /\ loc = [ r \in Runs |-> NoLoc ]
  /\ cause = [ r \in Runs |-> "" ]
  /\ trace = [ r \in Runs |-> << >> ]
  /\ snap = [ r \in Runs |-> NoSnap ]
  /\ exitCode = [ r \in Runs |-> -1 ]

\* one call of the run: what was called, whether it succeeded, and the
\* storage_provider written by a version write
Ev(op, ok, info) == [ op |-> op, ok |-> ok, info |-> info ]

Goto(r, l) == pc' = [pc EXCEPT ![r] = l]

Log(r, e) == trace' = [trace EXCEPT ![r] = Append(@, e)]

\* p.log.error(...); program.error(''): the run stops here
Abort(r, c) ==
  /\ pc' = [pc EXCEPT ![r] = "aborted"]
  /\ cause' = [cause EXCEPT ![r] = c]

\* exist_app_versions: whether a row (app_id, name) exists, deleted or not
exist_app_versions(vs, name) == vs[name].exists

\* updateOrCreateVersion: the row (app_id, name) becomes the given data
updateOrCreateVersion(vs, name, data) == [vs EXCEPT ![name] = data]

\* get_app_versions: the id of the row (app_id, name), or nothing
get_app_versions(vs, name) == IF vs[name].exists THEN name ELSE NoName

\* whether the key of the invocation may write the channel row
MaySetChannel(keyMode) == keyMode \in {"write", "all"}

store == << versions, channel, objects >>

\* the calls of the trace that go over the network: all but the local archive
\* build, the prompt on the terminal and the local encryption
IsNetworkCall(op) == op \notin {"zip", "confirm", "encrypt"}

\* ------------------------------------------------------------------------
\* uploadBundle, step by step
\* ------------------------------------------------------------------------

\* the options and credentials of an invocation
Options(bundles, externals, keys, apikeys, paths, keyModes) ==
  [ bundle : bundles, external : externals, key : keys, apikey : apikeys,
    path : paths, keyMode : keyModes ]

\* every command line of the model
AllOptions ==
  Options(Bundles, {"", "https", "http"}, BOOLEAN, BOOLEAN,
          {"none", "absent", "ok"}, {"read", "upload", "all"})

\* uploadCommand calls uploadBundle with the options of the command line
StartWith(r, o) ==
  /\ pc[r] = "idle"
  /\ opts' = [opts EXCEPT ![r] = o]
  /\ snap' = [snap EXCEPT ![r] = [ channel |-> channel, versions |-> versions,
                                   objects |-> objects ]]
  /\ Goto(r, "checkLatest")
  /\ UNCHANGED << store, loc, cause, trace, exitCode >>

\* one invocation, with any command line
Start(r) ==
  /\ r = 1
  /\ \E o \in AllOptions : StartWith(r, o)

\* await checkLatest(): asks the package registry for the latest CLI version
CheckLatest(r) ==
  /\ pc[r] = "checkLatest"
  /\ Log(r, Ev("checkLatest", TRUE, ""))
  /\ Goto(r, "validate")
  /\ UNCHANGED << store, opts, loc, cause, snap, exitCode >>

\* the first failing local check of the arguments, "" when all pass
ArgumentError(o) ==
  IF ~regexSemver(o.bundle) THEN "invalidBundleName"
  ELSE IF ~o.apikey THEN "missingApiKey"
  ELSE IF o.path = "none" THEN "missingArgument"
  ELSE IF o.path = "absent" THEN "pathDoesNotExist"
  ELSE ""

ValidateArgs(r) ==
  /\ pc[r] = "validate"
  /\ IF ArgumentError(opts[r]) # ""
       THEN Abort(r, ArgumentError(opts[r]))
       ELSE Goto(r, "verifyUser") /\ UNCHANGED cause
  /\ UNCHANGED << store, opts, loc, trace, snap, exitCode >>

\* verifyUser(supabase, apikey, ['write', 'all', 'upload'])
VerifyUser(r) ==
  /\ pc[r] = "verifyUser"
  /\ \E ok \in BOOLEAN :
       /\ ok => opts[r].keyMode \in {"write", "all", "upload"}
       /\ Log(r, Ev("verifyUser", ok, ""))
       /\ IF ok THEN Goto(r, "checkPlanValid") /\ UNCHANGED cause
                ELSE Abort(r, "invalidApiKey")
  /\ UNCHANGED << store, opts, loc, snap, exitCode >>

\* checkPlanValid(supabase, userId, false)
CheckPlanValid(r) ==
  /\ pc[r] = "checkPlanValid"
  /\ \E ok \in BOOLEAN :
       /\ Log(r, Ev("checkPlanValid", ok, ""))
       /\ IF ok THEN Goto(r, "checkApp") /\ UNCHANGED cause
                ELSE Abort(r, "planNotValid")
  /\ UNCHANGED << store, opts, loc, snap, exitCode >>

\* checkAppExistsAndHasPermissionErr(supabase, appid, apikey)
CheckApp(r) ==
  /\ pc[r] = "checkApp"
  /\ \E ok \in BOOLEAN :
       /\ Log(r, Ev("checkApp", ok, ""))
       /\ IF ok THEN Goto(r, "versionExist") /\ UNCHANGED cause
                ELSE Abort(r, "noAppPermission")
  /\ UNCHANGED << store, opts, loc, snap, exitCode >>

\* only a failed call stops the run, not an existing row
VersionExistAbort_errorOnly(versionExist, versionExistError) == versionExistError

\* if (versionExist || versionExistError)
VersionExistAbort(versionExist, versionExistError) ==
  versionExist \/ versionExistError

\* the first exist_app_versions call and its check
VersionExist(r) ==
  /\ pc[r] = "versionExist"
  /\ \E err \in BOOLEAN :
       /\ Log(r, Ev("versionExist", ~err, ""))
       /\ IF VersionExistAbort(exist_app_versions(versions, opts[r].bundle), err)
            THEN Abort(r, "bundleAlreadyExist")
            ELSE Goto(r, "isTrial") /\ UNCHANGED cause
  /\ UNCHANGED << store, opts, loc, snap, exitCode >>

\* is_trial: a warning at most, the run goes on
IsTrial(r) ==
  /\ pc[r] = "isTrial"
  /\ \E ok \in BOOLEAN : Log(r, Ev("isTrial", ok, ""))
  /\ Goto(r, "existApp")
  /\ UNCHANGED << store, opts, loc, cause, snap, exitCode >>

\* exist_app and if (!app || appError)
ExistApp(r) ==
  /\ pc[r] = "existApp"
  /\ \E ok \in BOOLEAN :
       /\ Log(r, Ev("existApp", ok, ""))
       /\ IF ok THEN Goto(r, "appVersion") /\ UNCHANGED cause
                ELSE Abort(r, "cannotFindApp")
  /\ UNCHANGED << store, opts, loc, snap, exitCode >>

\* the second exist_app_versions call and if (appVersion || appVersionError)
AppVersion(r) ==
  /\ pc[r] = "appVersion"
  /\ \E err \in BOOLEAN :
       /\ Log(r, Ev("appVersion", ~err, ""))
       /\ IF exist_app_versions(versions, opts[r].bundle) \/ err
            THEN Abort(r, "versionAlreadyExists")
            ELSE Goto(r, "checkNativeCode") /\ UNCHANGED cause
  /\ UNCHANGED << store, opts, loc, snap, exitCode >>

\* what the select on channels returns
SelectChannel(err) ==
  IF err \/ channel = NoName
    THEN DataChannel(FALSE, NoName, NullHashes)
    ELSE DataChannel(TRUE, channel, versions[channel].native_files_sha256)

\* the gate left out: the result of checkNativeCode is not looked at
NativeAbort_ignored(res) == FALSE

\* if (!nativeFilesNotChanged) program.error('')
NativeAbort(res) == ~res.nativeFilesNotChanged

\* const { nativeFilesNotChanged, hashes } = await checkNativeCode(...), the
\* project holding one of the given sets of native files
CheckNativeCodeOf(r, nativeSets) ==
  /\ pc[r] = "checkNativeCode"
  /\ \E nativeCodeLocal \in nativeSets, err \in BOOLEAN :
       LET res == checkNativeCode(nativeCodeLocal, SelectChannel(err), opts[r].bundle)
       IN  /\ Log(r, Ev("selectChannel", ~err, ""))
           /\ IF res.threw
                THEN /\ loc' = [loc EXCEPT ![r].nativeCodeLocal = nativeCodeLocal]
                     /\ Abort(r, "exception")
                ELSE /\ loc' = [loc EXCEPT ![r].nativeCodeLocal = nativeCodeLocal,
                                           ![r].nativeFilesNotChanged =
                                                res.nativeFilesNotChanged,
                                           ![r].hashes = res.hashes,
                                           ![r].changed = res.changed]
                     /\ IF NativeAbort(res) THEN Abort(r, "nativeFilesChanged")
                        ELSE /\ Goto(r, IF opts[r].external = ""
                                          THEN "build" ELSE "external")
                             /\ UNCHANGED cause
  /\ UNCHANGED << store, opts, snap, exitCode >>

CheckNativeCode(r) == CheckNativeCodeOf(r, LocalNativeSets)

\* zip.toBuffer() and checksum = await getChecksum(zipped, 'crc32'), then
\* if (key || existsSync(baseKeyPub))
BuildArtifact(r) ==
  /\ pc[r] = "build"
  /\ \E zipped \in Archives, baseKeyPubExists \in BOOLEAN :
       /\ loc' = [loc EXCEPT ![r].zipped = zipped,
                             ![r].checksum = getChecksum(zipped)]
       /\ Goto(r, IF opts[r].key \/ baseKeyPubExists THEN "encrypt" ELSE "createVersion")
  /\ Log(r, Ev("zip", TRUE, ""))
  /\ UNCHANGED << store, opts, cause, snap, exitCode >>

\* the encryption branch: the public key file, the CI check, the prompt
\* p.confirm (ok when the user accepts), readFileSync(publicKey) and
\* encryptSource
Encrypt(r) ==
  /\ pc[r] = "encrypt"
  /\ \E publicKeyExists \in BOOLEAN, isCI \in BOOLEAN, res \in BOOLEAN,
        sessionKey \in 1..MaxSessionKey :
       /\ ~opts[r].key => publicKeyExists
       /\ IF ~publicKeyExists /\ isCI
            THEN Abort(r, "cannotFindPublicKey") /\ UNCHANGED << loc, trace >>
          ELSE IF ~publicKeyExists /\ ~res
            THEN /\ Log(r, Ev("confirm", FALSE, ""))
                 /\ Abort(r, "missingPublicKey") /\ UNCHANGED loc
          ELSE IF ~publicKeyExists
            \* readFileSync(publicKey) of the file that does not exist throws
            THEN /\ Log(r, Ev("confirm", TRUE, ""))
                 /\ Abort(r, "exception") /\ UNCHANGED loc
          ELSE LET enc == encryptSource(loc[r].zipped, sessionKey)
               IN  /\ loc' = [loc EXCEPT ![r].sessionKey = enc.ivSessionKey,
                                         ![r].zipped = enc.encryptedData]
                   /\ Log(r, Ev("encrypt", TRUE, ""))
                   /\ Goto(r, "createVersion")
                   /\ UNCHANGED cause
  /\ UNCHANGED << store, opts, snap, exitCode >>

\* the scheme of the external URL is not looked at
ExternalAbort_never(external) == FALSE

\* external && !external.startsWith('https://')
ExternalAbort(external) == external # "" /\ external # "https"

\* else if (external && !external.startsWith('https://'))
External(r) ==
  /\ pc[r] = "external"
  /\ IF ExternalAbort(opts[r].external)
       THEN Abort(r, "externalNotHttps")
       ELSE Goto(r, "createVersion") /\ UNCHANGED cause
  /\ UNCHANGED << store, opts, loc, trace, snap, exitCode >>

\* bucket_id filled in whatever the mode
VersionData_bucketAlways(o, l) ==
  [ exists |-> TRUE,
    bucket_id |-> fileName(o.bundle),
    external_url |-> o.external,
    storage_provider |-> IF o.external # "" THEN "external" ELSE "r2-direct",
    checksum |-> l.checksum,
    session_key |-> l.sessionKey,
    native_files_sha256 |-> l.hashes ]

\* const versionData = { ... }
VersionData(o, l) ==
  [ exists |-> TRUE,
    bucket_id |-> IF o.external # "" THEN NoName ELSE fileName(o.bundle),
    external_url |-> o.external,
    storage_provider |-> IF o.external # "" THEN "external" ELSE "r2-direct",
    checksum |-> l.checksum,
    session_key |-> l.sessionKey,
    native_files_sha256 |-> l.hashes ]

\* the error of the first version write is not looked at
CreateAbort_never(dbError) == FALSE

\* if (dbError)
CreateAbort(dbError) == dbError

\* the first updateOrCreateVersion; then if (!external && zipped)
CreateVersion(r) ==
  /\ pc[r] = "createVersion"
  /\ LET versionData == VersionData(opts[r], loc[r]) IN
     \E dbError \in BOOLEAN :
       /\ loc' = [loc EXCEPT ![r].versionData = versionData]
       /\ Log(r, Ev("updateOrCreateVersion", ~dbError, versionData.storage_provider))
       /\ versions' = IF dbError THEN versions
                      ELSE updateOrCreateVersion(versions, opts[r].bundle, versionData)
       /\ IF CreateAbort(dbError) THEN Abort(r, "cannotAddBundle")
          ELSE /\ Goto(r, IF opts[r].external = "" /\ loc[r].zipped # << >>
                            THEN "uploadUrl" ELSE "getVersionId")
               /\ UNCHANGED cause
  /\ UNCHANGED << channel, objects, opts, snap, exitCode >>

\* const url = await uploadUrl(supabase, appid, fileName); if (!url)
UploadUrl(r) ==
  /\ pc[r] = "uploadUrl"
  /\ \E url \in BOOLEAN :
       /\ Log(r, Ev("uploadUrl", url, ""))
       /\ IF ~url THEN Abort(r, "cannotGetUploadUrl")
                  ELSE Goto(r, "transfer") /\ UNCHANGED cause
  /\ UNCHANGED << store, opts, loc, snap, exitCode >>

\* a failed transfer that does not reject
AxiosThrows_never(ok) == FALSE

\* await axios({ method: "put", ... }) rejects when the transfer fails
AxiosThrows(ok) == ~ok

\* the PUT of zipped with the x-amz-meta-crc32 header
Transfer(r) ==
  /\ pc[r] = "transfer"
  /\ \E ok \in BOOLEAN :
       /\ Log(r, Ev("put", ok, ""))
       /\ objects' = IF ok
                       THEN [objects EXCEPT ![fileName(opts[r].bundle)] =
                              [ stored |-> TRUE, bytes |-> loc[r].zipped,
                                crc32 |-> loc[r].checksum ]]
                       ELSE objects
       /\ IF AxiosThrows(ok) THEN Abort(r, "exception")
                             ELSE Goto(r, "updateVersion") /\ UNCHANGED cause
  /\ UNCHANGED << versions, channel, opts, loc, snap, exitCode >>

\* the error of the second version write is not looked at
UpdateAbort_never(dbError2) == FALSE

\* if (dbError2)
UpdateAbort(dbError2) == dbError2

\* versionData.storage_provider = 'r2' and the second updateOrCreateVersion
UpdateVersion(r) ==
  /\ pc[r] = "updateVersion"
  /\ LET versionData == [loc[r].versionData EXCEPT !.storage_provider = "r2"] IN
     \E dbError2 \in BOOLEAN :
       /\ loc' = [loc EXCEPT ![r].versionData = versionData]
       /\ Log(r, Ev("updateOrCreateVersion", ~dbError2, versionData.storage_provider))
       /\ versions' = IF dbError2 THEN versions
                      ELSE updateOrCreateVersion(versions, opts[r].bundle, versionData)
       /\ IF UpdateAbort(dbError2) THEN Abort(r, "cannotUpdateBundle")
                                   ELSE Goto(r, "getVersionId") /\ UNCHANGED cause
  /\ UNCHANGED << channel, objects, opts, snap, exitCode >>

\* get_app_versions and if (versionId) ... else
GetVersionId(r) ==
  /\ pc[r] = "getVersionId"
  /\ \E err \in BOOLEAN :
       LET versionId == IF err THEN NoName
                        ELSE get_app_versions(versions, opts[r].bundle)
       IN  /\ Log(r, Ev("getVersionId", ~err, ""))
           /\ loc' = [loc EXCEPT ![r].versionId = versionId]
           /\ IF versionId # NoName
                THEN Goto(r, "bindChannel") /\ UNCHANGED cause
                ELSE Abort(r, "cannotSetBundle")
  /\ UNCHANGED << store, opts, snap, exitCode >>

\* the error of the channel write is not looked at
BindAbort_never(dbError3) == FALSE

\* if (dbError3)
BindAbort(dbError3) == dbError3

\* updateOrCreateChannel(name: channel, app_id, created_by, version: versionId)
BindChannel(r) ==
  /\ pc[r] = "bindChannel"
  /\ \E ok \in BOOLEAN :
       /\ ok => MaySetChannel(opts[r].keyMode)
       /\ Log(r, Ev("updateOrCreateChannel", ok, ""))
       /\ channel' = IF ok THEN loc[r].versionId ELSE channel
       /\ IF BindAbort(~ok) THEN Abort(r, "cannotSetChannel")
                            ELSE Goto(r, "done") /\ UNCHANGED cause
  /\ UNCHANGED << versions, objects, opts, loc, snap, exitCode >>

\* every process ends with status 0
ExitStatus_zero(done) == 0

\* process.exit() ends the process with status 0, program.error('') with 1
ExitStatus(done) == IF done THEN 0 ELSE 1

\* process.exit() after the outro, or the exit of program.error(''): the
\* memory of the process is gone
Exit(r) ==
  /\ pc[r] \in {"done", "aborted"}
  /\ exitCode' = [exitCode EXCEPT ![r] = ExitStatus(pc[r] = "done")]
  /\ Goto(r, "exited")
  /\ opts' = [opts EXCEPT ![r] = NoOpts]
  /\ loc' = [loc EXCEPT ![r] = NoLoc]
  /\ cause' = [cause EXCEPT ![r] = ""]
  /\ trace' = [trace EXCEPT ![r] = << >>]
  /\ snap' = [snap EXCEPT ![r] = NoSnap]
  /\ UNCHANGED store

\* every step of uploadBundle after its start
Run(r) ==
  \/ CheckLatest(r)
  \/ ValidateArgs(r)
  \/ VerifyUser(r)
  \/ CheckPlanValid(r)
  \/ CheckApp(r)
  \/ VersionExist(r)
  \/ IsTrial(r)
  \/ ExistApp(r)
  \/ AppVersion(r)
  \/ CheckNativeCode(r)
  \/ BuildArtifact(r)
  \/ Encrypt(r)
  \/ External(r)
  \/ CreateVersion(r)
  \/ UploadUrl(r)
  \/ Transfer(r)
  \/ UpdateVersion(r)
  \/ GetVersionId(r)
  \/ BindChannel(r)
  \/ Exit(r)

Next == \E r \in Runs : Start(r) \/ Run(r)

\* one invocation of the upload command against the store
Spec == Init /\ [][Next]_vars

\* ------------------------------------------------------------------------
\* Invocations one after the other: the user runs the command again
\* ------------------------------------------------------------------------

\* the command lines of a repeated upload of bundle 1.5.0: valid arguments, a
\* key with all rights
AgainOptions ==
  Options({B150}, {"", "https"}, {FALSE}, {TRUE}, {"ok"}, {"all"})

StartAgain(r) ==
  /\ \A q \in Runs : q < r => pc[q] = "exited"
  /\ \E o \in AgainOptions : StartWith(r, o)

NextAgain == \E r \in Runs : StartAgain(r) \/ Run(r)

SpecAgain == Init /\ [][NextAgain]_vars

\* ------------------------------------------------------------------------
\* checkNativeCode on its own: an invocation that has reached the native-code
\* gate, over every recorded hash set and every set of local native files
\* ------------------------------------------------------------------------

\* number of native files of the project, and of recorded hashes of a version
MaxFiles == 2

\* the sequences of at most MaxFiles hashes
HashLists == UNION { [ 1..n -> Hashes ] : n \in 0..MaxFiles }

\* the results of findAllNativeCode: file i of the project has path i
AllNativeSets == { [ i \in DOMAIN hs |-> NativeFile(i, hs[i]) ] : hs \in HashLists }

\* the calls of a run that has passed every gate before checkNativeCode
GateTrace ==
  << Ev("checkLatest", TRUE, ""), Ev("verifyUser", TRUE, ""),
     Ev("checkPlanValid", TRUE, ""), Ev("checkApp", TRUE, ""),
     Ev("versionExist", TRUE, ""), Ev("isTrial", TRUE, ""),
     Ev("existApp", TRUE, ""), Ev("appVersion", TRUE, "") >>

InitNative ==
  /\ \E b \in {B150, B200}, c \in {NoName, B140, B200, BUnknown},
        hs \in HashLists \cup {NullHashes} :
       /\ c \in {NoName, BUnknown} => hs = NullHashes
       /\ b # c
       /\ channel = c
       /\ versions = [ n \in VersionNames |->
                         IF n = c THEN OldRow(n, hs)
                         ELSE IF n \in {B140, BUnknown} THEN OldRow(n, NullHashes)
                         ELSE NoRow ]
       /\ opts = [ r \in Runs |->
                     IF r = 1
                       THEN [ bundle |-> b, external |-> "", key |-> FALSE,
                              apikey |-> TRUE, path |-> "ok", keyMode |-> "all" ]
                       ELSE NoOpts ]
       /\ snap = [ r \in Runs |->
                     IF r = 1
                       THEN [ channel |-> channel, versions |-> versions,
                              objects |-> [ k \in ObjectKeys |-> NoObject ] ]
                       ELSE NoSnap ]
  /\ objects = [ k \in ObjectKeys |-> NoObject ]
  /\ pc = [ r \in Runs |-> IF r = 1 THEN "checkNativeCode" ELSE "idle" ]
  /\ loc = [ r \in Runs |-> NoLoc ]
  /\ cause = [ r \in Runs |-> "" ]
  /\ trace = [ r \in Runs |-> IF r = 1 THEN GateTrace ELSE << >> ]
  /\ exitCode = [ r \in Runs |-> -1 ]

NextNative == \E r \in Runs : CheckNativeCodeOf(r, AllNativeSets)

SpecNative == InitNative /\ [][NextNative]_vars

\* ------------------------------------------------------------------------
\* Invocations at the same time: two processes upload the same bundle name
\* ------------------------------------------------------------------------

\* the command lines of the racing uploads: bundle 1.5.0 as a local archive,
\* valid arguments, a key with all rights
RaceOptions ==
  Options({B150}, {""}, {FALSE}, {TRUE}, {"ok"}, {"all"})

\* each process starts whenever it likes: nothing orders the processes
StartRace(r) == \E o \in RaceOptions : StartWith(r, o)

\* the project of the racing uploads has no native files
RaceNativeSets == { << >> }

\* the archive of the racing uploads
RaceArchive == << 1, 2 >>

\* zip and checksum in a project without a public key file: no encryption
BuildPlain(r) ==
  /\ BuildArtifact(r)
  /\ loc'[r].zipped = RaceArchive
  /\ pc'[r] = "createVersion"

\* every step of uploadBundle for a local archive that is not encrypted
RunRace(r) ==
  \/ CheckLatest(r)
  \/ ValidateArgs(r)
  \/ VerifyUser(r)
  \/ CheckPlanValid(r)
  \/ CheckApp(r)
  \/ VersionExist(r)
  \/ IsTrial(r)
  \/ ExistApp(r)
  \/ AppVersion(r)
  \/ CheckNativeCodeOf(r, RaceNativeSets)
  \/ BuildPlain(r)
  \/ CreateVersion(r)
  \/ UploadUrl(r)
  \/ Transfer(r)
  \/ UpdateVersion(r)
  \/ GetVersionId(r)
  \/ BindChannel(r)
  \/ Exit(r)

NextRace == \E r \in Runs : StartRace(r) \/ RunRace(r)

SpecRace == Init /\ [][NextRace]_vars

\* ------------------------------------------------------------------------
\* The object key on its own: the expression of fileName applied to any
\* bundle name, by each process given that name
\* ------------------------------------------------------------------------

\* length of a bundle name
MaxNameLen == 3

\* characters of a bundle name: of the class and outside it
NameChars == {"1", "a", ".", "_", "/", " "}

\* the bundle names of at most MaxNameLen characters
KeyNames == UNION { [ 1..n -> NameChars ] : n \in 0..MaxNameLen }

InitKey ==
  /\ \E n \in KeyNames :
       opts = [ r \in Runs |->
                  [ bundle |-> n, external |-> "", key |-> FALSE,
                    apikey |-> TRUE, path |-> "ok", keyMode |-> "all" ] ]
  /\ channel = NoName
  /\ versions = [ n \in VersionNames |-> NoRow ]
  /\ objects = [ k \in ObjectKeys |-> NoObject ]
  /\ pc = [ r \in Runs |-> "fileName" ]
  /\ loc = [ r \in Runs |-> NoLoc ]
  /\ cause = [ r \in Runs |-> "" ]
  /\ trace = [ r \in Runs |-> << >> ]
  /\ snap = [ r \in Runs |-> NoSnap ]
  /\ exitCode = [ r \in Runs |-> -1 ]

\* const fileName = `${safeBundle}.zip`, kept where versionData puts it
FileName(r) ==
  /\ pc[r] = "fileName"
  /\ loc' = [loc EXCEPT ![r].versionData.bucket_id = fileName(opts[r].bundle)]
  /\ Goto(r, "keyed")
  /\ UNCHANGED << store, opts, cause, trace, snap, exitCode >>

NextKey == \E r \in Runs : FileName(r)

SpecKey == InitKey /\ [][NextKey]_vars

\* ------------------------------------------------------------------------
\* Properties
\* ------------------------------------------------------------------------

Range(f) == { f[i] : i \in DOMAIN f }

\* run r has made the call op
Did(r, op) == \E i \in DOMAIN trace[r] : trace[r][i].op = op

\* run r has made the call op and it succeeded
DidOk(r, op) == \E i \in DOMAIN trace[r] : trace[r][i].op = op /\ trace[r][i].ok

\* run r has made the call op and it failed
DidFail(r, op) == \E i \in DOMAIN trace[r] : trace[r][i].op = op /\ ~trace[r][i].ok

\* every call b of run r comes after a call a
Before(r, a, b) ==
  \A j \in DOMAIN trace[r] :
    trace[r][j].op = b => \E i \in 1..(j - 1) : trace[r][i].op = a

\* run r has issued a version write with the given storage_provider
Wrote(r, provider) ==
  \E i \in DOMAIN trace[r] :
    trace[r][i].op = "updateOrCreateVersion" /\ trace[r][i].info = provider

\* the store is as it was when run r started
StoreUntouched(r) ==
  /\ versions = snap[r].versions
  /\ channel = snap[r].channel
  /\ objects = snap[r].objects

\* checkNativeCode of run r has returned
NativeReturned(r) ==
  /\ Did(r, "selectChannel")
  /\ ~( /\ pc[r] = "aborted"
        /\ cause[r] = "exception"
        /\ trace[r][Len(trace[r])].op = "selectChannel" )

\* C1: in every run checkNativeCode has completed before the archive is
\* built, and a run whose checkNativeCode reported nativeFilesNotChanged =
\* false is aborted there: no archive built, no version row created or
\* updated, no upload URL requested, no transfer, no channel bind, the store
\* as the run found it.
C1_NativeGateBeforeArchive ==
  \A r \in Runs :
    /\ Before(r, "selectChannel", "zip")
    /\ ~loc[r].nativeFilesNotChanged =>
         /\ pc[r] = "aborted"
         /\ cause[r] = "nativeFilesChanged"
         /\ ~Did(r, "zip")
         /\ ~Did(r, "updateOrCreateVersion")
         /\ ~Did(r, "uploadUrl")
         /\ ~Did(r, "put")
         /\ ~Did(r, "updateOrCreateChannel")
         /\ StoreUntouched(r)

\* a run stopped by the native-code gate, naming the changed file
C1_Witness ==
  \E r \in Runs :
    /\ pc[r] = "aborted"
    /\ cause[r] = "nativeFilesChanged"
    /\ loc[r].changed = << 2 >>

\* the channel of run r exists, its lookup succeeded, and both names are versions
ChannelCompared(r) ==
  /\ NativeReturned(r)
  /\ DidOk(r, "selectChannel")
  /\ snap[r].channel # NoName
  /\ regexSemver(snap[r].channel)

BoundHashes(r) == snap[r].versions[snap[r].channel].native_files_sha256

\* the paths of the local files whose hash is not in the set hs, in order
RECURSIVE PathsOutside(_, _)
PathsOutside(files, hs) ==
  IF files = << >> THEN << >>
  ELSE (IF Head(files).hash \in hs THEN << >> ELSE << Head(files).path >>)
         \o PathsOutside(Tail(files), hs)

\* C2: when the channel exists, its bound version has a recorded hash set and
\* the released major is not greater than the bound major, checkNativeCode
\* reports safe exactly when every local hash is in the recorded set, and the
\* paths it reports are exactly those of the local files whose hash is absent
\* from the recorded set.
C2_SafeIffLocalHashesRecorded ==
  \A r \in Runs :
    ( /\ ChannelCompared(r)
      /\ BoundHashes(r) # NullHashes
      /\ SemverMajor(opts[r].bundle) <= SemverMajor(snap[r].channel) )
    => /\ loc[r].nativeFilesNotChanged
            <=> (Range(MapHash(loc[r].nativeCodeLocal)) \subseteq Range(BoundHashes(r)))
       /\ loc[r].changed = PathsOutside(loc[r].nativeCodeLocal, Range(BoundHashes(r)))

\* recorded {A, B}, local {A, C}, same major: unsafe, naming the file of C only
C2_Witness ==
  \E r \in Runs :
    /\ ChannelCompared(r)
    /\ BoundHashes(r) = << "A", "B" >>
    /\ MapHash(loc[r].nativeCodeLocal) = << "A", "C" >>
    /\ SemverMajor(opts[r].bundle) = SemverMajor(snap[r].channel)
    /\ ~loc[r].nativeFilesNotChanged
    /\ loc[r].changed = << 2 >>

\* C3: whenever the released major is greater than the major of the version
\* bound to the channel, checkNativeCode reports safe whatever the local and
\* the recorded hashes are (a null recorded set included), returns the local
\* hashes, and the run goes on.
C3_MajorBumpIsSafe ==
  \A r \in Runs :
    ( /\ ChannelCompared(r)
      /\ SemverMajor(opts[r].bundle) > SemverMajor(snap[r].channel) )
    => /\ loc[r].nativeFilesNotChanged
       /\ loc[r].changed = << >>
       /\ loc[r].hashes = MapHash(loc[r].nativeCodeLocal)
       /\ pc[r] = "build"

\* bound 1.4.0 with recorded {A}, 2.0.0 released with local {B}: safe
C3_Witness ==
  \E r \in Runs :
    /\ ChannelCompared(r)
    /\ snap[r].channel = B140
    /\ opts[r].bundle = B200
    /\ BoundHashes(r) = << "A" >>
    /\ loc[r].hashes = << "B" >>
    /\ loc[r].nativeFilesNotChanged

\* run r is in progress or has just ended, its memory still there
Live(r) == pc[r] \notin {"idle", "exited"}

\* the indexes of the version writes of run r with the given storage_provider
Writes(r, provider) ==
  { i \in DOMAIN trace[r] :
      trace[r][i].op = "updateOrCreateVersion" /\ trace[r][i].info = provider }

\* a version write of run r with the given storage_provider has succeeded
WroteOk(r, provider) == \E i \in Writes(r, provider) : trace[r][i].ok

\* the object key of the bundle of run r
KeyOf(r) == fileName(opts[r].bundle)

\* C4: a run that reaches the existence gate while a row (app_id, name) of its
\* bundle exists is aborted with the "already exist" conflict at that gate: it
\* builds no archive, writes no version row, requests no upload URL, transfers
\* nothing, and leaves the version rows, the channel and the bucket unchanged.
C4_ReuploadRejected ==
  \A r \in Runs :
    ( /\ Did(r, "versionExist")
      /\ snap[r].versions[opts[r].bundle].exists )
    => /\ pc[r] = "aborted"
       /\ cause[r] = "bundleAlreadyExist"
       /\ trace[r][Len(trace[r])].op = "versionExist"
       /\ ~Did(r, "zip")
       /\ ~Did(r, "updateOrCreateVersion")
       /\ ~Did(r, "uploadUrl")
       /\ ~Did(r, "put")
       /\ StoreUntouched(r)

\* the second upload of 1.5.0, after a first one that succeeded, is rejected
C4_Witness ==
  /\ exitCode[1] = 0
  /\ pc[2] = "aborted"
  /\ cause[2] = "bundleAlreadyExist"
  /\ DidOk(2, "versionExist")
  /\ versions[B150].storage_provider = "r2"
  /\ channel = B150

\* C5: in local-archive mode a version write with storage_provider 'r2' is
\* issued only after the PUT of the same run has succeeded; after a failed
\* upload-URL request or a failed PUT the run is aborted, has issued no write
\* with 'r2', and the row is still 'r2-direct'.
C5_R2OnlyAfterTransfer ==
  \A r \in Runs :
    /\ \A j \in Writes(r, "r2") :
         \E i \in 1..(j - 1) : trace[r][i].op = "put" /\ trace[r][i].ok
    /\ (DidFail(r, "uploadUrl") \/ DidFail(r, "put"))
         => /\ pc[r] = "aborted"
            /\ Writes(r, "r2") = {}
            /\ versions[opts[r].bundle].storage_provider = "r2-direct"

\* a run whose PUT failed: aborted, the row left 'r2-direct'
C5_Witness ==
  \E r \in Runs :
    /\ DidFail(r, "put")
    /\ pc[r] = "aborted"
    /\ versions[opts[r].bundle].storage_provider = "r2-direct"

\* C6: the checksum of the version row and of the x-amz-meta-crc32 header is
\* the checksum of the bytes transferred to storage, the ciphertext when the
\* archive was encrypted.
C6_ChecksumOfStoredBytes ==
  \A r \in Runs :
    DidOk(r, "put")
    => /\ objects[KeyOf(r)].crc32 = getChecksum(objects[KeyOf(r)].bytes)
       /\ versions[opts[r].bundle].checksum = getChecksum(objects[KeyOf(r)].bytes)

\* C7: the channel bind is issued only after the first version write
\* succeeded and, in local-archive mode, after the PUT and the write with
\* 'r2' succeeded; the channel row changes only by a successful bind, and a
\* run that is aborted before leaves the channel as it found it.
C7_PublishIsLast ==
  \A r \in Runs :
    Live(r)
    => /\ Did(r, "updateOrCreateChannel")
            => /\ (WroteOk(r, "r2-direct") \/ WroteOk(r, "external"))
               /\ opts[r].external = ""
                    => (DidOk(r, "put") /\ WroteOk(r, "r2"))
       /\ channel # snap[r].channel => DidOk(r, "updateOrCreateChannel")
       /\ ~DidOk(r, "updateOrCreateChannel") => channel = snap[r].channel

\* a run that published a local archive: the channel moved to its version
C7_Witness ==
  \E r \in Runs :
    /\ pc[r] = "done"
    /\ opts[r].external = ""
    /\ channel = opts[r].bundle
    /\ snap[r].channel = B140

\* C8: a run whose key permits upload but not channel binding never ends
\* done and never moves the channel; when it gets to the channel bind it has
\* created the version row, stored the artifact and written 'r2' (local-archive
\* mode), it is aborted with the "cannot set channel" cause, and the version
\* row is still there and retrievable.
C8_UploadKeyCannotPublish ==
  \A r \in Runs :
    (Live(r) /\ opts[r].keyMode = "upload")
    => /\ pc[r] # "done"
       /\ channel = snap[r].channel
       /\ Did(r, "updateOrCreateChannel")
            => /\ pc[r] = "aborted"
               /\ cause[r] = "cannotSetChannel"
               /\ get_app_versions(versions, opts[r].bundle) = opts[r].bundle
               /\ opts[r].external = ""
                    => /\ WroteOk(r, "r2-direct")
                       /\ objects[KeyOf(r)].stored
                       /\ WroteOk(r, "r2")
                       /\ versions[opts[r].bundle].storage_provider = "r2"

\* an upload-only run of a local archive stopped at the channel bind
C8_Witness ==
  \E r \in Runs :
    /\ opts[r].keyMode = "upload"
    /\ opts[r].external = ""
    /\ pc[r] = "aborted"
    /\ cause[r] = "cannotSetChannel"
    /\ versions[opts[r].bundle].storage_provider = "r2"
    /\ objects[KeyOf(r)].stored
    /\ channel = snap[r].channel

\* C9: when the version write with 'r2' fails after the PUT succeeded, the
\* run is aborted with the "cannot update bundle" report, which is not the
\* "cannot add bundle" report of the first write; the artifact is stored, the
\* row is still 'r2-direct', the write was issued once, and the channel is
\* neither bound nor changed.
C9_UpdateFailureAfterUpload ==
  \A r \in Runs :
    (\E i \in Writes(r, "r2") : ~trace[r][i].ok)
    => /\ pc[r] = "aborted"
       /\ cause[r] = "cannotUpdateBundle"
       /\ cause[r] # "cannotAddBundle"
       /\ DidOk(r, "put")
       /\ objects[KeyOf(r)].stored
       /\ objects[KeyOf(r)].bytes = loc[r].zipped
       /\ versions[opts[r].bundle].storage_provider = "r2-direct"
       /\ Cardinality(Writes(r, "r2")) = 1
       /\ ~Did(r, "updateOrCreateChannel")
       /\ channel = snap[r].channel

\* a run whose second version write failed
C9_Witness ==
  \E r \in Runs :
    /\ \E i \in Writes(r, "r2") : ~trace[r][i].ok
    /\ pc[r] = "aborted"
    /\ cause[r] = "cannotUpdateBundle"
    /\ objects[KeyOf(r)].stored

\* C10: a run whose bundle name is no semantic version is aborted with the
\* invalid-bundle-name error before it has made any call over the network.
C10_SemverGateBeforeNetwork ==
  \A r \in Runs :
    (Live(r) /\ ~regexSemver(opts[r].bundle))
    => /\ pc[r] = "aborted" => cause[r] = "invalidBundleName"
       /\ \A i \in DOMAIN trace[r] : ~IsNetworkCall(trace[r][i].op)

\* C11: in every run the native-code gate (the channel lookup of
\* checkNativeCode) is evaluated before the version-existence gate, both of
\* its calls; a run stopped by the existence gate has therefore passed the
\* native-code gate.
C11_NativeGateBeforeExistenceGate ==
  \A r \in Runs :
    /\ Before(r, "selectChannel", "versionExist")
    /\ Before(r, "selectChannel", "appVersion")
    /\ (pc[r] = "aborted" /\ cause[r] \in {"bundleAlreadyExist", "versionAlreadyExists"})
         => Did(r, "selectChannel")

\* C12: a remote call that returns an error ends the run: every failed call
\* of a run is its last call and leaves it aborted, the trial-status lookup
\* and the channel lookup of checkNativeCode included; after a failed first
\* version write nothing is transferred; and no call is issued twice.
C12_FailedCallEndsRun ==
  \A r \in Runs :
    /\ \A i \in DOMAIN trace[r] :
         ~trace[r][i].ok => (i = Len(trace[r]) /\ pc[r] = "aborted")
    /\ (\E i \in Writes(r, "r2-direct") : ~trace[r][i].ok) => ~Did(r, "put")
    /\ \A i, j \in DOMAIN trace[r] : trace[r][i] = trace[r][j] => i = j

\* C13: whatever the interleaving of the invocations that upload the same
\* (app_id, name), a version row whose storage_provider is 'r2' is never
\* written back to 'r2-direct'.
C13_ProviderNeverRegresses ==
  [][ \A n \in VersionNames :
        versions[n].storage_provider = "r2"
          => versions'[n].storage_provider # "r2-direct" ]_vars

\* the indexes of the version writes of run r
AllWrites(r) ==
  { i \in DOMAIN trace[r] : trace[r][i].op = "updateOrCreateVersion" }

\* C14: a run given an external URL builds no archive, encrypts nothing,
\* requests no upload URL and transfers nothing; when the URL does not start
\* with https:// it is aborted before any version row is written; otherwise
\* its version write comes after the permission, existence and native-code
\* gates have passed, is issued once, with storage_provider 'external', and
\* after it the run goes on to the version-id resolution and the channel bind.
C14_ExternalMode ==
  \A r \in Runs :
    (Live(r) /\ opts[r].external # "")
    => /\ ~Did(r, "zip") /\ ~Did(r, "encrypt")
       /\ ~Did(r, "uploadUrl") /\ ~Did(r, "put")
       /\ objects = snap[r].objects
       /\ opts[r].external # "https"
            => /\ AllWrites(r) = {}
               /\ versions = snap[r].versions
               /\ pc[r] \notin {"createVersion", "getVersionId", "bindChannel", "done"}
       /\ AllWrites(r) # {}
            => /\ DidOk(r, "verifyUser") /\ DidOk(r, "checkPlanValid")
               /\ DidOk(r, "checkApp") /\ DidOk(r, "versionExist")
               /\ DidOk(r, "appVersion") /\ Did(r, "selectChannel")
               /\ loc[r].nativeFilesNotChanged
               /\ Cardinality(AllWrites(r)) = 1
               /\ AllWrites(r) = Writes(r, "external")
       /\ WroteOk(r, "external")
            => /\ versions[opts[r].bundle].storage_provider = "external"
               /\ versions[opts[r].bundle].external_url = opts[r].external
               /\ pc[r] \in {"getVersionId", "bindChannel", "done", "aborted"}
               /\ pc[r] = "aborted" => cause[r] \in {"cannotSetBundle", "cannotSetChannel"}
               /\ pc[r] = "done"
                    => DidOk(r, "getVersionId") /\ DidOk(r, "updateOrCreateChannel")

\* a release by external URL that was published: one row, provider 'external'
C14_Witness ==
  \E r \in Runs :
    /\ opts[r].external = "https"
    /\ pc[r] = "done"
    /\ Cardinality(AllWrites(r)) = 1
    /\ versions[opts[r].bundle].storage_provider = "external"
    /\ channel = opts[r].bundle

\* C15: when encryption is requested and the public key file is not found, a
\* CI run is aborted without the prompt; an interactive run is prompted, is
\* aborted when the user declines, and when the user accepts it encrypts the
\* archive and goes on to the version write.
C15_MissingKeyPolicy ==
  \A r \in Runs :
    /\ (pc[r] = "aborted" /\ cause[r] = "cannotFindPublicKey") => ~Did(r, "confirm")
    /\ DidFail(r, "confirm") => (pc[r] = "aborted" /\ cause[r] = "missingPublicKey")
    /\ DidOk(r, "confirm")
         => /\ Did(r, "encrypt")
            /\ loc[r].sessionKey # 0
            /\ pc[r] = "aborted" => Did(r, "updateOrCreateVersion")

\* the reserved-safe set of object keys: A-Z a-z 0-9 - _ . ! * ' ( )
ReservedSafe ==
  { "A", "B", "C", "D", "E", "F", "G", "H", "I", "J", "K", "L", "M",
    "N", "O", "P", "Q", "R", "S", "T", "U", "V", "W", "X", "Y", "Z",
    "a", "b", "c", "d", "e", "f", "g", "h", "i", "j", "k", "l", "m",
    "n", "o", "p", "q", "r", "s", "t", "u", "v", "w", "x", "y", "z",
    "0", "1", "2", "3", "4", "5", "6", "7", "8", "9",
    "-", "_", ".", "!", "*", "'", "(", ")" }

\* the number of characters of name before position i that are outside the set
UnsafeBefore(name, i) ==
  Cardinality({ j \in 1..(i - 1) : name[j] \notin ReservedSafe })

\* the object key computed by run r
KeyMade(r) == loc[r].versionData.bucket_id

\* C16: the object key of a bundle name is the name with each character
\* outside [A-Za-z0-9-_.!*'()] replaced by "__", followed by ".zip": it has no
\* character outside the set, the characters of the set are kept, unchanged
\* and in order, and the same name yields the same key each time.
C16_ObjectKeySafety ==
  \A r \in Runs :
    pc[r] = "keyed"
    => LET name == opts[r].bundle
           key  == KeyMade(r)
           body == Len(name) + UnsafeBefore(name, Len(name) + 1)
       IN  /\ Len(key) = body + 4
           /\ SubSeq(key, body + 1, body + 4) = << ".", "z", "i", "p" >>
           /\ \A i \in 1..Len(name) :
                LET at == i + UnsafeBefore(name, i)
                IN  IF name[i] \in ReservedSafe
                      THEN key[at] = name[i]
                      ELSE key[at] = "_" /\ key[at + 1] = "_"
           /\ \A i \in 1..Len(key) : key[i] \in ReservedSafe
           /\ \A q \in Runs :
                (pc[q] = "keyed" /\ opts[q].bundle = name) => KeyMade(q) = key

\* the key of "1/a": the slash replaced, the rest kept, by each process alike
C16_Witness ==
  /\ \A r \in Runs : pc[r] = "keyed"
  /\ opts[1].bundle = << "1", "/", "a" >>
  /\ KeyMade(1) = << "1", "_", "_", "a", ".", "z", "i", "p" >>
  /\ KeyMade(2) = KeyMade(1)

\* the causes reported by the validations that need no remote call
LocalCauses ==
  { "invalidBundleName", "missingApiKey", "missingArgument", "pathDoesNotExist",
    "externalNotHttps", "cannotFindPublicKey", "missingPublicKey" }

\* C17: every local validation of a run is done before its first remote
\* call: a run aborted by a local validation (bundle name, API key, arguments,
\* source path, scheme of the external URL, encryption public key) has made
\* no call over the network.
C17_LocalValidationFirst ==
  \A r \in Runs :
    (pc[r] = "aborted" /\ cause[r] \in LocalCauses)
    => \A i \in DOMAIN trace[r] : ~IsNetworkCall(trace[r][i].op)

\* the channel of run r does not exist, or its version has no recorded hashes
NothingRecorded(r) ==
  IF snap[r].channel = NoName THEN TRUE ELSE BoundHashes(r) = NullHashes

\* C18: when no channel row exists, or the version bound to the channel has no
\* recorded native hashes, checkNativeCode reports safe; whenever it returns,
\* the hashes it returns are those of the local native files in the order they
\* were found, and they are the native_files_sha256 of the version row the run
\* writes.
C18_FirstReleaseAndHashRecording ==
  \A r \in Runs :
    /\ (Did(r, "selectChannel") /\ NothingRecorded(r))
         => /\ NativeReturned(r)
            /\ loc[r].nativeFilesNotChanged
    /\ NativeReturned(r) => loc[r].hashes = MapHash(loc[r].nativeCodeLocal)
    /\ (\E i \in AllWrites(r) : trace[r][i].ok)
         => versions[opts[r].bundle].native_files_sha256
              = MapHash(loc[r].nativeCodeLocal)

\* the version record of the given name has one storage location, and its
\* storage_provider says which
OneLocation(name, row) ==
  /\ (row.bucket_id # NoName) # (row.external_url # "")
  /\ row.storage_provider = "external" <=> row.external_url # ""
  /\ row.external_url = ""
       => /\ row.storage_provider \in {"r2-direct", "r2"}
          /\ row.bucket_id = fileName(name)

\* C19: every version record the pipeline writes has exactly one of bucket_id
\* and external_url set, its storage_provider is 'external' exactly when
\* external_url is the one set, and otherwise the provider is 'r2-direct' or
\* 'r2' and bucket_id is the object key of the bundle.
C19_OneStorageLocation ==
  /\ \A r \in Runs :
       AllWrites(r) # {} => OneLocation(opts[r].bundle, loc[r].versionData)
  /\ \A n \in VersionNames : versions[n].exists => OneLocation(n, versions[n])

\* a row written for an external URL: no bucket_id, provider 'external'
C19_Witness ==
  \E r \in Runs :
    /\ WroteOk(r, "external")
    /\ pc[r] = "bindChannel"
    /\ versions[opts[r].bundle].bucket_id = NoName
    /\ versions[opts[r].bundle].external_url = "https"
    /\ versions[opts[r].bundle].storage_provider = "external"

\* the store holds the release of the given bundle in full: its row, stored
\* or external, and the channel bound to it
Released(bundle) ==
  /\ versions[bundle].exists
  /\ versions[bundle].storage_provider \in {"r2", "external"}
  /\ versions[bundle].storage_provider = "r2" => objects[fileName(bundle)].stored
  /\ channel = bundle

\* C20: a run is done, and its process ends with status 0, only if the
\* version row was written, for a local archive the PUT and the write with
\* 'r2' succeeded, the version id was resolved and the channel bind succeeded;
\* a process that has ended has status 0 or 1, and status 0 only with the
\* release in the store in full.
C20_NoPartialSuccess ==
  \A r \in Runs :
    /\ pc[r] = "done"
         => /\ (WroteOk(r, "r2-direct") \/ WroteOk(r, "external"))
            /\ opts[r].external = "" => (DidOk(r, "put") /\ WroteOk(r, "r2"))
            /\ DidOk(r, "getVersionId")
            /\ loc[r].versionId = opts[r].bundle
            /\ DidOk(r, "updateOrCreateChannel")
            /\ Released(opts[r].bundle)
    /\ pc[r] = "exited" <=> exitCode[r] \in {0, 1}
    /\ exitCode[r] = 0 => \E b \in Bundles \cap VersionNames : Released(b)

\* an upload of 1.5.0 that ended with status 0: stored, 'r2', channel bound
C20_Witness ==
  \E r \in Runs :
    /\ pc[r] = "exited"
    /\ exitCode[r] = 0
    /\ Released(B150)
    /\ versions[B150].storage_provider = "r2"

\* run r started after an earlier upload of its bundle had ended with an error
\* leaving the placeholder row: the row is 'r2-direct' and no object is
\* stored, the upload-URL request or the transfer having failed
PlaceholderFound(r) ==
  /\ r > 1
  /\ Live(r)
  /\ exitCode[r - 1] = 1
  /\ opts[r].bundle \in VersionNames
  /\ snap[r].versions[opts[r].bundle].exists
  /\ snap[r].versions[opts[r].bundle].storage_provider = "r2-direct"
  /\ ~snap[r].objects[KeyOf(r)].stored

\* C21: after a run that created the placeholder row and was aborted by a
\* failed upload-URL request or a failed transfer, a later run of the same
\* bundle name passes the existence gate: its exist_app_versions call having
\* succeeded, it is not aborted there with the "already exist" conflict.
C21_RerunPassesExistenceGate ==
  \A r \in Runs :
    (PlaceholderFound(r) /\ DidOk(r, "versionExist"))
    => ~(pc[r] = "aborted" /\ cause[r] = "bundleAlreadyExist")

====
